---- MODULE Spec2Model ----
(***************************************************************************)
(* Model of the transfers store (src/unnamed/part_000, lines 1-161): the   *)
(* client-side bookkeeping of agent transfers and of the queue counters    *)
(* (generalQueueCount, teamQueueCounts); of the flow builder (same file,   *)
(* lines 163-757); of the flows list and the team handlers                 *)
(* (ChatbotFlowsView.vue, lines 1-266 and 267-753); and, from the          *)
(* specification, of the flow execution engine and the round_robin         *)
(* assignment strategy.                                                    *)
(*                                                                         *)
(* JavaScript values are modelled as follows.  A field of a stored         *)
(* transfer that the code only tests for truthiness (agent_id, team_id)    *)
(* holds either a truthy id or Empty, which stands for every falsy value   *)
(* (undefined, null, '').  A field of an `updates` argument is Absent (the *)
(* key is not in the object), Null, Empty or a truthy id, because the code *)
(* tells these apart (`!== undefined`, `??`, truthiness).                  *)
(***************************************************************************)
EXTENDS Integers, Sequences, FiniteSets, TLC

\* ---------------------------------------------------------------- bounds
\* No step takes a queue counter above MaxCount.
MaxCount == 2
\* At most MaxQueue notifications are on their way to the store.
MaxQueue == 2
\* At most MaxInflight list requests are awaiting their response.
MaxInflight == 1

\* ------------------------------------------------------------ JS values
Absent == "undefined"
Null == "null"
Empty == ""

Truthy(v) == v \notin {Absent, Null, Empty}

Max(a, b) == IF a >= b THEN a ELSE b

\* ------------------------------------------------------------- domains
\* The store is exercised with two transfers, both of the same contact.
TransferIds == {1, 2}
AgentIds == {"a1"}
TeamIds == {"T1"}
Statuses == {"active", "resumed"}

ContactOf(id) == "c1"

\* The AgentTransfer values handed to the store (fields the store reads).
AgentTransfer ==
    { [id |-> i, contact_id |-> ContactOf(i), status |-> s, agent_id |-> a, team_id |-> t] :
        i \in TransferIds, s \in Statuses, a \in AgentIds \cup {Empty}, t \in TeamIds \cup {Empty} }

\* The Partial<AgentTransfer> values handed to updateTransfer.
PartialAgentTransfer ==
    [ status : Statuses \cup {Absent},
      agent_id : AgentIds \cup {Absent, Null},
      team_id : TeamIds \cup {Absent, Null, Empty} ]

\* `undefined` where a transfer is expected (find found nothing).
NoTransfer == [id |-> 0, contact_id |-> Absent, status |-> Absent, agent_id |-> Absent, team_id |-> Absent]

\* An updates object with no key: {}.
NoUpdates == [status |-> Absent, agent_id |-> Absent, team_id |-> Absent]

VARIABLES
    transfers,          \* ref<AgentTransfer[]>: the stored list
    generalQueueCount,  \* ref(0)
    teamQueueCounts,    \* ref<Record<string, number>>: a function on the keys present
    isLoading,          \* ref(false)
    lastCall,           \* observation: the store function that ran last, with what it was given and found
    server,             \* the server's transfers, oldest first (FIFO), and how many it has created
    channel,            \* the notifications on their way to the store, in order
    inflight,           \* the list responses on their way to the store
    steps,              \* flow builder: formData.steps
    flowName,           \* flow builder: formData.name
    selectedStepIndex,  \* flow builder: ref<number | null>, 0-based
    stepToDeleteIndex,  \* flow builder: ref<number | null>, 0-based
    deleteStepDialogOpen, \* flow builder: ref(false)
    sent,               \* observation: the steps of the payload the last handler sent, if it sent one
    teamRows,           \* team handlers: the rows of table teams
    memberRows,         \* team handlers: the rows of table team_members
    lastStatus,         \* observation: the HTTP status of the last team request
    flowDefinition,     \* engine: the steps of the flow definition the session runs
    session,            \* engine: the session (lifecycle state, current step, retry counter)
    invalidRun,         \* observation: the invalid inputs in a row the current step has received
    lastEvent,          \* observation: the event the engine handled last and what it signalled
    roster,             \* assignment: the members of one team (available, last_assigned_at)
    clock,              \* assignment: the current time
    lastPick,           \* observation: the member the last enqueue was assigned to, 0 for none
    tables,             \* flow builder: the header and response-mapping tables (key -> value)
    hasUnsavedChanges,  \* flow builder: ref(false)
    saving,             \* flow builder: the payload of the save request in flight, if any
    flows,              \* flows list: the enabled flag of each flow of the list
    toggling,           \* flows list: the updateFlow requests of toggleFlow in flight
    lastUpdate,         \* observation: per flow, the enabled value its last successful update sent
    adding              \* team handlers: the AddTeamMember requests between their checks and their insert

storeVars == <<transfers, generalQueueCount, teamQueueCounts, isLoading, lastCall>>
serverVars == <<server, channel, inflight>>
builderVars == <<steps, flowName, selectedStepIndex, stepToDeleteIndex, deleteStepDialogOpen, sent>>
\* What the transfers store and its server never touch.
handlerVars == <<teamRows, memberRows, lastStatus>>
engineVars == <<flowDefinition, session, invalidRun, lastEvent>>
assignVars == <<roster, clock, lastPick>>
tableVars == <<tables>>
saveVars == <<hasUnsavedChanges, saving>>
listVars == <<flows, toggling, lastUpdate>>
requestVars == <<adding>>
pageVars == <<tableVars, saveVars, listVars, requestVars>>
otherVars == <<builderVars, handlerVars, engineVars, assignVars, pageVars>>
vars == <<transfers, generalQueueCount, teamQueueCounts, isLoading, lastCall, server, channel, inflight,
          steps, flowName, selectedStepIndex, stepToDeleteIndex, deleteStepDialogOpen, sent,
          teamRows, memberRows, lastStatus, flowDefinition, session, invalidRun, lastEvent,
          roster, clock, lastPick,
          tables, hasUnsavedChanges, saving, flows, toggling, lastUpdate, adding>>

\* ------------------------------------------------------------ counters
\* teamQueueCounts.value[team] || 0
TeamCount(teams, team) == IF team \in DOMAIN teams THEN teams[team] ELSE 0

\* teamQueueCounts.value[team] = n
SetTeamCount(teams, team, n) == [k \in (DOMAIN teams) \cup {team} |-> IF k = team THEN n ELSE teams[k]]

\* The store's data, as the functions below thread it through a handler.
Store == [transfers |-> transfers, general |-> generalQueueCount, teams |-> teamQueueCounts]

\* if (team_id) teamQueueCounts[team_id] = (teamQueueCounts[team_id] || 0) + 1 else generalQueueCount++
IncrementQueue(c, team) ==
    IF Truthy(team)
    THEN [c EXCEPT !.teams = SetTeamCount(@, team, TeamCount(@, team) + 1)]
    ELSE [c EXCEPT !.general = @ + 1]

\* if (team_id) teamQueueCounts[team_id] = Math.max(0, (teamQueueCounts[team_id] || 0) - 1)
\* else generalQueueCount = Math.max(0, generalQueueCount - 1)
DecrementQueue(c, team) ==
    IF Truthy(team)
    THEN [c EXCEPT !.teams = SetTeamCount(@, team, Max(0, TeamCount(@, team) - 1))]
    ELSE [c EXCEPT !.general = Max(0, @ - 1)]

SumOf(teams) ==
    LET RECURSIVE Sum(_)
        Sum(S) == IF S = {} THEN 0
                  ELSE LET k == CHOOSE x \in S : TRUE IN teams[k] + Sum(S \ {k})
    IN Sum(DOMAIN teams)

\* const queueCount = computed(...)
queueCount == generalQueueCount + SumOf(teamQueueCounts)

WithinBound(s) ==
    /\ s.general <= MaxCount
    /\ \A k \in DOMAIN s.teams : s.teams[k] <= MaxCount

\* -------------------------------------------------------------- getters
Indices(list) == 1..Len(list)

\* transfers.value.filter(t => t.status === 'active')
activeTransfers == { i \in Indices(transfers) : transfers[i].status = "active" }

\* transfers.value.filter(t => t.status === 'active' && !t.agent_id).length
unassignedCount ==
    Cardinality({ i \in Indices(transfers) :
                    transfers[i].status = "active" /\ ~Truthy(transfers[i].agent_id) })

\* transfers.value.findIndex(t => t.id === id): the first match, 0 for -1
findIndex(list, id) ==
    IF \E i \in Indices(list) : list[i].id = id
    THEN CHOOSE i \in Indices(list) : list[i].id = id /\ \A j \in 1..(i - 1) : list[j].id # id
    ELSE 0

\* transfers.value.find(t => t.contact_id === contactId && t.status === 'active')
getActiveTransferForContact(contactId) ==
    LET hits == { i \in Indices(transfers) :
                    transfers[i].contact_id = contactId /\ transfers[i].status = "active" }
    IN IF hits = {} THEN NoTransfer
       ELSE transfers[CHOOSE i \in hits : \A j \in hits : i <= j]


\* ------------------------------------------------------------- handlers
\* addTransfer without its test of transfer.agent_id: every new transfer is counted.
addTransferCountsAssigned(s, transfer) ==
    LET exists == \E i \in Indices(s.transfers) : s.transfers[i].id = transfer.id
    IN IF ~exists
       THEN IncrementQueue([s EXCEPT !.transfers = <<transfer>> \o @], transfer.team_id)
       ELSE s

\* addTransfer without its test for a transfer already stored under the id.
addTransferUnchecked(s, transfer) ==
    LET added == [s EXCEPT !.transfers = <<transfer>> \o @]
    IN IF ~Truthy(transfer.agent_id) THEN IncrementQueue(added, transfer.team_id) ELSE added

\* function addTransfer(transfer): the store after the call
addTransferResult(s, transfer) ==
    LET exists == \E i \in Indices(s.transfers) : s.transfers[i].id = transfer.id
        added == [s EXCEPT !.transfers = <<transfer>> \o @]
    IN IF ~exists
       THEN IF ~Truthy(transfer.agent_id) THEN IncrementQueue(added, transfer.team_id) ELSE added
       ELSE s

\* { ...oldTransfer, ...updates }: a key that is present in updates overwrites
Merge(oldTransfer, updates) ==
    [ id |-> oldTransfer.id,
      contact_id |-> oldTransfer.contact_id,
      status |-> IF updates.status # Absent THEN updates.status ELSE oldTransfer.status,
      agent_id |-> IF updates.agent_id = Absent THEN oldTransfer.agent_id
                   ELSE IF Truthy(updates.agent_id) THEN updates.agent_id ELSE Empty,
      team_id |-> IF updates.team_id = Absent THEN oldTransfer.team_id
                  ELSE IF Truthy(updates.team_id) THEN updates.team_id ELSE Empty ]

\* "Update queue count if assignment changed"
AssignmentChanged(s, oldTransfer, updates) ==
    IF updates.agent_id # Absent
    THEN IF ~Truthy(oldTransfer.agent_id) /\ Truthy(updates.agent_id)
         THEN DecrementQueue(s, oldTransfer.team_id)
         ELSE IF Truthy(oldTransfer.agent_id) /\ ~Truthy(updates.agent_id)
              THEN LET teamId == IF updates.team_id \in {Absent, Null}
                                 THEN oldTransfer.team_id ELSE updates.team_id
                   IN IncrementQueue(s, teamId)
              ELSE s
    ELSE s

\* The resumed branch without its test of oldTransfer.status.
StatusResumedEveryTime(s, oldTransfer, updates) ==
    IF updates.status = "resumed" /\ ~Truthy(oldTransfer.agent_id)
    THEN DecrementQueue(s, oldTransfer.team_id)
    ELSE s

\* "Update queue count if status changed to resumed"
StatusResumed(s, oldTransfer, updates) ==
    IF updates.status = "resumed" /\ oldTransfer.status = "active" /\ ~Truthy(oldTransfer.agent_id)
    THEN DecrementQueue(s, oldTransfer.team_id)
    ELSE s

\* function updateTransfer(id, updates): the store after the call
updateTransferResult(s, id, updates) ==
    LET index == findIndex(s.transfers, id) IN
    IF index # 0
    THEN LET oldTransfer == s.transfers[index]
             merged == [s EXCEPT !.transfers[index] = Merge(oldTransfer, updates)]
         IN StatusResumed(AssignmentChanged(merged, oldTransfer, updates), oldTransfer, updates)
    ELSE s

\* transfers.value.splice(index, 1)
Splice(list, index) == [i \in 1..(Len(list) - 1) |-> IF i < index THEN list[i] ELSE list[i + 1]]

\* function removeTransfer(id): the store after the call
removeTransferResult(s, id) ==
    LET index == findIndex(s.transfers, id) IN
    IF index # 0
    THEN LET transfer == s.transfers[index]
             counted == IF transfer.status = "active" /\ ~Truthy(transfer.agent_id)
                        THEN DecrementQueue(s, transfer.team_id)
                        ELSE s
         IN [counted EXCEPT !.transfers = Splice(@, index)]
    ELSE s

\* fetchTransfers, after the await: the store once the response `data` is applied
\*   transfers.value = data.transfers || []
\*   generalQueueCount.value = data.general_queue_count ?? 0
\*   teamQueueCounts.value = data.team_queue_counts ?? {}
\* A key the response lacks reads as undefined.
fetchTransfersResult(s, data) ==
    [ transfers |-> IF "transfers" \in DOMAIN data THEN data.transfers ELSE <<>>,
      general |-> IF "general_queue_count" \in DOMAIN data THEN data.general_queue_count ELSE 0,
      teams |-> IF "team_queue_counts" \in DOMAIN data THEN data.team_queue_counts ELSE <<>> ]

\* The transfer stored under `id` (the first one), NoTransfer when there is none.
Stored(s, id) ==
    IF findIndex(s.transfers, id) = 0 THEN NoTransfer ELSE s.transfers[findIndex(s.transfers, id)]

\* What lastCall keeps of a call.
\* `old` is the status of the transfer the call found under the id (Absent: none),
\* `status` the status key of the updates, `error` what the call threw: no store
\* function has a throw statement, and fetchTransfers catches what its request throws.
Call(op, id, old, updates) ==
    [op |-> op, id |-> id, old |-> old.status, status |-> updates.status, error |-> "none"]

\* The store takes the value `s`.
Becomes(s) ==
    /\ WithinBound(s)
    /\ transfers' = s.transfers
    /\ generalQueueCount' = s.general
    /\ teamQueueCounts' = s.teams

addTransfer(transfer) ==
    /\ Becomes(addTransferResult(Store, transfer))
    /\ lastCall' = Call("addTransfer", transfer.id, Stored(Store, transfer.id), NoUpdates)
    /\ UNCHANGED isLoading

updateTransfer(id, updates) ==
    /\ Becomes(updateTransferResult(Store, id, updates))
    /\ lastCall' = Call("updateTransfer", id, Stored(Store, id), updates)
    /\ UNCHANGED isLoading

removeTransfer(id) ==
    /\ Becomes(removeTransferResult(Store, id))
    /\ lastCall' = Call("removeTransfer", id, Stored(Store, id), NoUpdates)
    /\ UNCHANGED isLoading


\* ------------------------------------------------------ queue operations
\* A transfer that waits in a queue: active, with no agent.
IsUnassignedActive(t) == t.status = "active" /\ ~Truthy(t.agent_id)

\* The updates by which an assign, an unassign and a resume reach updateTransfer.
Assign(agent) == [status |-> Absent, agent_id |-> agent, team_id |-> Absent]
Unassign == [status |-> Absent, agent_id |-> Null, team_id |-> Absent]
Resume == [status |-> "resumed", agent_id |-> Absent, team_id |-> Absent]

\* --------------------------------------------------------------- server
\* The server is not part of the sources: its list endpoint and its queue
\* operations follow the specification (sections 3, 4.3 and 6).

\* "at most one active transfer per contact at a time", ids unique
ServerInvariant(list) ==
    \A i, j \in Indices(list) :
        i # j => /\ list[i].id # list[j].id
                 /\ ~(list[i].contact_id = list[j].contact_id
                      /\ list[i].status = "active" /\ list[j].status = "active")

\* The lists a server can hold, oldest (lowest id) first.
ServerLists ==
    { list \in UNION { [1..n -> AgentTransfer] : n \in 0..Cardinality(TransferIds) } :
        /\ ServerInvariant(list)
        /\ \A i, j \in Indices(list) : i < j => list[i].id < list[j].id }

\* The `status` parameter of a list request; Absent: no parameter.
StatusParams == Statuses \cup {Absent}

\* The number of active transfers of the list with no agent, in queue `team` (Empty: general).
Unassigned(list, team) ==
    Cardinality({ i \in Indices(list) :
                    /\ list[i].status = "active"
                    /\ ~Truthy(list[i].agent_id)
                    /\ list[i].team_id = team })

WithStatus(list, status) ==
    LET Keep(t) == status = Absent \/ t.status = status IN SelectSeq(list, Keep)

\* The body of a list response: the transfers the status parameter selects,
\* and the authoritative counts of the general queue and of every team with a queue.
listTransfers(list, status) ==
    [ transfers |-> WithStatus(list, status),
      general_queue_count |-> Unassigned(list, Empty),
      team_queue_counts |-> [t \in { k \in TeamIds : Unassigned(list, k) > 0 } |-> Unassigned(list, t)] ]

Responses == { listTransfers(list, status) : list \in ServerLists, status \in StatusParams }

\* A response body with none of the keys: every default applies.
EmptyBody == [none |-> Absent]

\* -------------------------------------------------- fetchTransfers steps
\* async function fetchTransfers(params), run to its end with the response `data`:
\* nothing the store holds is read after the await, so the steps of other handlers
\* in between change nothing of the result.
fetchTransfers(data) ==
    /\ Becomes(fetchTransfersResult(Store, data))
    /\ isLoading' = FALSE
    /\ lastCall' = Call("fetchTransfers", 0, NoTransfer, NoUpdates)

\* catch (error): the request failed; finally isLoading.value = false
fetchTransfersFailed ==
    /\ isLoading' = FALSE
    /\ lastCall' = Call("fetchTransfers:error", 0, NoTransfer, NoUpdates)
    /\ UNCHANGED <<transfers, generalQueueCount, teamQueueCounts>>


\* ========================================================== flow builder
\* The flow builder (src/unnamed/part_000, lines 163-757) edits formData.steps.  Of a
\* step the model keeps the fields its handlers read or write: step_name, step_order,
\* max_retries and buttons; the others are copied untouched by every handler below.

\* The builder is exercised with flows of at most MaxSteps steps.
MaxSteps == 2

\* "WhatsApp allows maximum 10 options"
MaxButtons == 10

\* `null` where an index is expected.
NullIndex == -1

\* An optional key of a response: None when it is missing (or null), Some(v) when it is v.
None == <<>>
Some(v) == <<v>>

\* A step name is kept as <<prefix, rest>> with prefix "step_" exactly when the name
\* starts with 'step_' (what deleteStep tests); the name is the two put together.
StepName(n) == <<"step_", ToString(n)>>
EmptyName == <<"", "">>
CustomName == <<"", "ask_name">>

\* step.step_name.startsWith('step_')
startsWithStep(name) == name[1] = "step_"

\* const defaultStep
defaultStep == [step_name |-> EmptyName, step_order |-> 0, max_retries |-> 3, buttons |-> <<>>]

\* What the user can type into the step name field.
NameInputs == {StepName(2), EmptyName}

\* What the user can type into the retry field (type="number" min="1" max="10":
\* the attributes bound the spinner and the form validation, not the value typed).
RetryInputs == {0, 11}

\* A step of a getFlow response, at 0-based position idx: each key present or missing.
\* The store of flow definitions keeps step orders dense and names unique.
LoadedStep(idx) ==
    { [step_name |-> None, step_order |-> None, max_retries |-> None, buttons |-> <<>>],
      [step_name |-> None, step_order |-> Some(idx + 1), max_retries |-> None, buttons |-> <<>>],
      [step_name |-> Some(CustomName), step_order |-> Some(idx + 1), max_retries |-> Some(11),
       buttons |-> <<>>] }

FlowResponses ==
    UNION { { flow \in [1..n -> UNION { LoadedStep(i) : i \in 0..(n - 1) }] :
                /\ \A i \in 1..n : flow[i] \in LoadedStep(i - 1)
                /\ \A i, j \in 1..n : (i # j /\ flow[i].step_name # None)
                                        => flow[i].step_name # flow[j].step_name }
            : n \in 0..MaxSteps }

\* loadFlow: steps: (flow.steps || []).map((s, idx) => ({ ... }))
loadFlowSteps(flow) ==
    [ i \in 1..Len(flow) |->
        [ step_name |-> IF flow[i].step_name # None /\ flow[i].step_name[1] # EmptyName
                        THEN flow[i].step_name[1] ELSE StepName(i),
          step_order |-> IF flow[i].step_order # None THEN flow[i].step_order[1] ELSE i,
          max_retries |-> IF flow[i].max_retries # None THEN flow[i].max_retries[1] ELSE 3,
          buttons |-> flow[i].buttons ] ]

\* const selectedStep = computed(...): the 1-based place of the selected step, 0 for null
selectedStep ==
    IF selectedStepIndex = NullIndex \/ selectedStepIndex >= Len(steps) THEN 0
    ELSE selectedStepIndex + 1

\* A drag end that renumbers nothing.
keepStepOrders(list) == list

\* formData.value.steps.forEach((step, idx) => { step.step_order = idx + 1 })
updateStepOrders(list) == [i \in 1..Len(list) |-> [list[i] EXCEPT !.step_order = i]]

\* deleteStep: "Reorder remaining steps"
reorderRemaining(list) ==
    [i \in 1..Len(list) |->
        [list[i] EXCEPT !.step_order = i,
                        !.step_name = IF startsWithStep(@) THEN StepName(i) ELSE @]]

\* array.splice(index, 1), index 0-based: nothing is removed at or past the length
spliceAt(list, index) == IF index + 1 \in 1..Len(list) THEN Splice(list, index + 1) ELSE list

\* vuedraggable: the element at 0-based place `from` is moved to place `to`
moveStep(list, from, to) ==
    LET rest == spliceAt(list, from)
    IN SubSeq(rest, 1, to) \o <<list[from + 1]>> \o SubSeq(rest, to + 1, Len(rest))

\* saveFlow: steps: formData.value.steps.map((step, idx) => ({ ...step, ... }))
saveFlowSteps(list) ==
    [i \in 1..Len(list) |->
        [list[i] EXCEPT !.step_order = i,
                        !.step_name = IF @ # EmptyName THEN @ ELSE StepName(i)]]

\* No payload: the last handler sent none.
NoPayload == <<>>

BuilderInit ==
    /\ steps = <<>>
    /\ flowName = ""
    /\ selectedStepIndex = NullIndex
    /\ stepToDeleteIndex = NullIndex
    /\ deleteStepDialogOpen = FALSE
    /\ sent = NoPayload

\* The alert dialog is modal: while it is open only its two buttons can be clicked.
Editing == ~deleteStepDialogOpen

\* onMounted of a new flow: "Initialize with one default step"
onMountedNew ==
    /\ steps' = <<[defaultStep EXCEPT !.step_name = StepName(1), !.step_order = 1]>>
    /\ flowName' = ""
    /\ selectedStepIndex' = NullIndex
    /\ stepToDeleteIndex' = NullIndex
    /\ deleteStepDialogOpen' = FALSE
    /\ sent' = NoPayload

\* onMounted of an existing flow: loadFlow(flowId) with the response `flow`
loadFlow(name, flow) ==
    /\ steps' = loadFlowSteps(flow)
    /\ flowName' = name
    /\ selectedStepIndex' = NullIndex
    /\ stepToDeleteIndex' = NullIndex
    /\ deleteStepDialogOpen' = FALSE
    /\ sent' = NoPayload

\* v-model="formData.name"
setFlowName(name) ==
    /\ Editing
    /\ flowName' = name
    /\ sent' = NoPayload
    /\ UNCHANGED <<steps, selectedStepIndex, stepToDeleteIndex, deleteStepDialogOpen>>

addStep ==
    /\ Editing
    /\ Len(steps) < MaxSteps
    /\ LET newOrder == Len(steps) + 1
       IN steps' = Append(steps, [defaultStep EXCEPT !.step_name = StepName(newOrder),
                                                     !.step_order = newOrder])
    /\ selectedStepIndex' = Len(steps') - 1
    /\ sent' = NoPayload
    /\ UNCHANGED <<flowName, stepToDeleteIndex, deleteStepDialogOpen>>

selectStep(index) ==
    /\ Editing
    /\ index \in 0..(Len(steps) - 1)
    /\ selectedStepIndex' = index
    /\ sent' = NoPayload
    /\ UNCHANGED <<steps, flowName, stepToDeleteIndex, deleteStepDialogOpen>>

selectFlowSettings ==
    /\ Editing
    /\ selectedStepIndex' = NullIndex
    /\ sent' = NoPayload
    /\ UNCHANGED <<steps, flowName, stepToDeleteIndex, deleteStepDialogOpen>>

confirmDeleteStep(index) ==
    /\ Editing
    /\ index \in 0..(Len(steps) - 1)
    /\ stepToDeleteIndex' = index
    /\ deleteStepDialogOpen' = TRUE
    /\ sent' = NoPayload
    /\ UNCHANGED <<steps, flowName, selectedStepIndex>>

\* AlertDialogCancel: v-model:open closes the dialog, stepToDeleteIndex stays
cancelDeleteStep ==
    /\ deleteStepDialogOpen
    /\ deleteStepDialogOpen' = FALSE
    /\ sent' = NoPayload
    /\ UNCHANGED <<steps, flowName, selectedStepIndex, stepToDeleteIndex>>

deleteStep ==
    /\ deleteStepDialogOpen
    /\ stepToDeleteIndex # NullIndex
    /\ steps' = reorderRemaining(spliceAt(steps, stepToDeleteIndex))
    /\ selectedStepIndex' =
        IF selectedStepIndex # NullIndex
        THEN IF selectedStepIndex >= Len(steps')
             THEN (IF Len(steps') > 0 THEN Len(steps') - 1 ELSE NullIndex)
             ELSE IF selectedStepIndex = stepToDeleteIndex
                  THEN (IF Len(steps') > 0
                        THEN (IF stepToDeleteIndex <= Len(steps') - 1
                              THEN stepToDeleteIndex ELSE Len(steps') - 1)
                        ELSE NullIndex)
                  ELSE selectedStepIndex
        ELSE selectedStepIndex
    /\ deleteStepDialogOpen' = FALSE
    /\ stepToDeleteIndex' = NullIndex
    /\ sent' = NoPayload
    /\ UNCHANGED flowName

\* <draggable v-model="formData.steps" @end="updateStepOrders">: one drag and drop
dragStep(from, to) ==
    /\ Editing
    /\ from \in 0..(Len(steps) - 1)
    /\ to \in 0..(Len(steps) - 1)
    /\ from # to
    /\ steps' = updateStepOrders(moveStep(steps, from, to))
    /\ sent' = NoPayload
    /\ UNCHANGED <<flowName, selectedStepIndex, stepToDeleteIndex, deleteStepDialogOpen>>

\* <Input v-model="selectedStep.step_name">
setStepName(name) ==
    /\ Editing
    /\ selectedStep # 0
    /\ steps' = [steps EXCEPT ![selectedStep].step_name = name]
    /\ sent' = NoPayload
    /\ UNCHANGED <<flowName, selectedStepIndex, stepToDeleteIndex, deleteStepDialogOpen>>

\* <Input v-model.number="selectedStep.max_retries" type="number" min="1" max="10">
setMaxRetries(n) ==
    /\ Editing
    /\ selectedStep # 0
    /\ steps' = [steps EXCEPT ![selectedStep].max_retries = n]
    /\ sent' = NoPayload
    /\ UNCHANGED <<flowName, selectedStepIndex, stepToDeleteIndex, deleteStepDialogOpen>>

\* addButton without its test of the length.
addButtonUncapped(buttons, type) == Append(buttons, [type |-> type])

\* function addButton(type): the buttons of the selected step after the call.
\* A button is kept as its type; its id (`btn_${length + 1}` when added), title and
\* url are read by neither helper.
addButtonResult(buttons, type) ==
    IF Len(buttons) >= MaxButtons THEN buttons
    ELSE Append(buttons, [type |-> type])

addButton(type) ==
    /\ Editing
    /\ selectedStep # 0
    /\ steps' = [steps EXCEPT ![selectedStep].buttons = addButtonResult(@, type)]
    /\ sent' = NoPayload
    /\ UNCHANGED <<flowName, selectedStepIndex, stepToDeleteIndex, deleteStepDialogOpen>>

\* removeButton(index): index is the place of a rendered button
removeButton(index) ==
    /\ Editing
    /\ selectedStep # 0
    /\ index \in 0..(Len(steps[selectedStep].buttons) - 1)
    /\ steps' = [steps EXCEPT ![selectedStep].buttons = spliceAt(@, index)]
    /\ sent' = NoPayload
    /\ UNCHANGED <<flowName, selectedStepIndex, stepToDeleteIndex, deleteStepDialogOpen>>

\* saveFlow: the two early returns, then the request with the payload; what follows
\* the await (toast, route, hasUnsavedChanges, isSaving) touches nothing kept here.
saveFlow ==
    /\ Editing
    /\ flowName # ""
    /\ Len(steps) # 0
    /\ sent' = saveFlowSteps(steps)
    /\ UNCHANGED <<steps, flowName, selectedStepIndex, stepToDeleteIndex, deleteStepDialogOpen>>


\* ========================================================= team handlers
\* package handlers (src/frontend/src/views/chatbot/ChatbotFlowsView.vue, lines 267-753).
\* The database answers every statement (the StatusInternalServerError branches are
\* not taken) and every id in a request parses as a uuid.

StatusOK == 200
StatusBadRequest == 400
StatusForbidden == 403
StatusNotFound == 404
StatusConflict == 409

\* The users of table users, as the auth middleware puts them in the request context.
Users ==
    { [user_id |-> "admin1", role |-> "admin", organization_id |-> "org1"],
      [user_id |-> "user1", role |-> "agent", organization_id |-> "org1"],
      [user_id |-> "user2", role |-> "manager", organization_id |-> "org1"],
      [user_id |-> "admin2", role |-> "admin", organization_id |-> "org2"] }

\* The uuids a new team can get.
TeamKeys == {"team1", "team2"}

\* The user ids asked for in member requests.
MemberIds == {"user1", "user2", "admin2"}

\* TeamRequest, decoded: a key the body omits has Go's zero value ("" or false).
TeamRequest ==
    [ Name : {"", "sales"},
      Description : {"", "about"},
      AssignmentStrategy : {"", "manual", "random"},
      IsActive : BOOLEAN ]

\* TeamMemberRequest, decoded.
TeamMemberRequest == [UserID : MemberIds, Role : {"", "manager", "owner"}]

\* No validation of the strategy.
AnyStrategy(strategy) == TRUE

\* strategy != "round_robin" && strategy != "load_balanced" && strategy != "manual"
ValidStrategy(strategy) == strategy \in {"round_robin", "load_balanced", "manual"}

\* The tables, as the functions below thread them through a handler, with the status sent.
DB == [teams |-> teamRows, members |-> memberRows]

Reply(db, status) == [teams |-> db.teams, members |-> db.members, status |-> status]

\* a.DB.Where("id = ? AND organization_id = ?", teamID, orgID).Preload("Members").First(&team)
FindTeam(db, teamID, orgID) == { t \in db.teams : t.id = teamID /\ t.organization_id = orgID }

\* team.Members of the preloaded team
MembersOf(db, teamID) == { m \in db.members : m.team_id = teamID }

\* The access check with any membership taken for a manager's.
isMember(db, teamID, userID) == \E m \in MembersOf(db, teamID) : m.user_id = userID

\* for _, m := range team.Members { if m.UserID == userID && m.Role == "manager" ... }
isManager(db, teamID, userID) ==
    \E m \in MembersOf(db, teamID) : m.user_id = userID /\ m.role = "manager"

\* func (a *App) CreateTeam; `id` is the uuid the new row gets
CreateTeamResult(db, caller, req, id) ==
    IF caller.role # "admin" THEN Reply(db, StatusForbidden)
    ELSE IF req.Name = "" THEN Reply(db, StatusBadRequest)
    ELSE LET strategy == IF req.AssignmentStrategy = "" THEN "round_robin"
                         ELSE req.AssignmentStrategy
         IN IF ~ValidStrategy(strategy) THEN Reply(db, StatusBadRequest)
            ELSE Reply([db EXCEPT !.teams = @ \cup
                            {[ id |-> id,
                               organization_id |-> caller.organization_id,
                               name |-> req.Name,
                               description |-> req.Description,
                               assignment_strategy |-> strategy,
                               is_active |-> TRUE ]}],
                       StatusOK)

\* func (a *App) UpdateTeam
UpdateTeamResult(db, caller, teamID, req) ==
    LET found == FindTeam(db, teamID, caller.organization_id) IN
    IF found = {} THEN Reply(db, StatusNotFound)
    ELSE IF caller.role # "admin" /\ ~isManager(db, teamID, caller.user_id)
    THEN Reply(db, StatusForbidden)
    ELSE IF req.AssignmentStrategy # "" /\ ~ValidStrategy(req.AssignmentStrategy)
    THEN Reply(db, StatusBadRequest)
    ELSE LET team == CHOOSE t \in found : TRUE
             saved == [team EXCEPT
                         !.name = IF req.Name # "" THEN req.Name ELSE @,
                         !.description = req.Description,
                         !.is_active = req.IsActive,
                         !.assignment_strategy =
                             IF req.AssignmentStrategy # "" THEN req.AssignmentStrategy ELSE @]
         IN Reply([db EXCEPT !.teams = (@ \ {team}) \cup {saved}], StatusOK)

\* func (a *App) DeleteTeam
DeleteTeamResult(db, caller, teamID) ==
    IF caller.role # "admin" THEN Reply(db, StatusForbidden)
    ELSE LET withoutMembers == [db EXCEPT !.members = @ \ MembersOf(db, teamID)]
             found == FindTeam(db, teamID, caller.organization_id)
         IN IF found = {} THEN Reply(withoutMembers, StatusNotFound)
            ELSE Reply([withoutMembers EXCEPT !.teams = @ \ found], StatusOK)

\* Any caller may add a manager.
anyoneAddsManagers(caller, role) == FALSE

\* if userRole != "admin" && role == "manager": only admins can add managers
onlyAdminsAddManagers(caller, role) == caller.role # "admin" /\ role = "manager"

\* func (a *App) AddTeamMember
AddTeamMemberResult(db, caller, teamID, req) ==
    IF FindTeam(db, teamID, caller.organization_id) = {} THEN Reply(db, StatusNotFound)
    ELSE IF caller.role # "admin" /\ ~isManager(db, teamID, caller.user_id)
    THEN Reply(db, StatusForbidden)
    ELSE IF ~\E u \in Users : u.user_id = req.UserID /\ u.organization_id = caller.organization_id
    THEN Reply(db, StatusNotFound)
    ELSE IF \E m \in MembersOf(db, teamID) : m.user_id = req.UserID
    THEN Reply(db, StatusConflict)
    ELSE LET role == IF req.Role = "" THEN "agent" ELSE req.Role IN
         IF role # "manager" /\ role # "agent" THEN Reply(db, StatusBadRequest)
         ELSE IF onlyAdminsAddManagers(caller, role) THEN Reply(db, StatusForbidden)
         ELSE Reply([db EXCEPT !.members = @ \cup
                        {[team_id |-> teamID, user_id |-> req.UserID, role |-> role]}],
                    StatusOK)

\* func (a *App) RemoveTeamMember
RemoveTeamMemberResult(db, caller, teamID, memberUserID) ==
    IF FindTeam(db, teamID, caller.organization_id) = {} THEN Reply(db, StatusNotFound)
    ELSE IF caller.role # "admin" /\ ~isManager(db, teamID, caller.user_id)
    THEN Reply(db, StatusForbidden)
    ELSE IF caller.role # "admin" /\ isManager(db, teamID, memberUserID)
    THEN Reply(db, StatusForbidden)
    ELSE LET rows == { m \in MembersOf(db, teamID) : m.user_id = memberUserID }
         IN IF rows = {} THEN Reply(db, StatusNotFound)
            ELSE Reply([db EXCEPT !.members = @ \ rows], StatusOK)

\* The handler has answered: the tables and the status are those of `reply`.
Replies(reply) ==
    /\ teamRows' = reply.teams
    /\ memberRows' = reply.members
    /\ lastStatus' = reply.status

\* A uuid no row uses.
FreshKeys == { id \in TeamKeys : /\ \A t \in teamRows : t.id # id
                                 /\ \A m \in memberRows : m.team_id # id }

CreateTeam(caller, req) ==
    \E id \in FreshKeys : Replies(CreateTeamResult(DB, caller, req, id))

UpdateTeam(caller, teamID, req) == Replies(UpdateTeamResult(DB, caller, teamID, req))

DeleteTeam(caller, teamID) == Replies(DeleteTeamResult(DB, caller, teamID))

AddTeamMember(caller, teamID, req) == Replies(AddTeamMemberResult(DB, caller, teamID, req))

RemoveTeamMember(caller, teamID, memberUserID) ==
    Replies(RemoveTeamMemberResult(DB, caller, teamID, memberUserID))

HandlersInit ==
    /\ teamRows = {}
    /\ memberRows = {}
    /\ lastStatus = StatusOK

\* AddTeamMember handled concurrently: the handler runs in no transaction, so other
\* requests can be served between its lookup of an existing member and its insert.
\* The table takes every row it is given: the sources declare no constraint on
\* (team_id, user_id).  A row is kept as its team, user and role, so two rows of a
\* pair that also agree in the role are one row here.

\* At most MaxAdding requests are between their checks and their insert.
MaxAdding == 2

\* AddTeamMember up to its a.DB.Create: a request that fails a check is answered at
\* once; one that passes them all goes on with the row it is about to insert.
AddTeamMemberChecks(caller, teamID, req) ==
    LET reply == AddTeamMemberResult(DB, caller, teamID, req)
    IN IF reply.status # StatusOK
       THEN Replies(reply) /\ UNCHANGED adding
       ELSE /\ Len(adding) < MaxAdding
            /\ adding' = Append(adding, CHOOSE m \in reply.members : m \notin memberRows)
            /\ UNCHANGED <<teamRows, memberRows, lastStatus>>

\* a.DB.Create(&member) of request i, and the response
AddTeamMemberCreate(i) ==
    /\ memberRows' = memberRows \cup {adding[i]}
    /\ lastStatus' = StatusOK
    /\ adding' = Splice(adding, i)
    /\ UNCHANGED teamRows


\* ================================================= flow execution engine
\* The engine is not part of the sources: the session state machine follows the
\* specification (section 4.1, and 4.2 for the transfer step).  Of a step the engine
\* model keeps what decides the sequencing: whether it is a transfer step, whether it
\* awaits input, whether the input is validated, retry_on_invalid and max_retries.

\* The flows run have steps with max_retries up to MaxRetries.
MaxRetries == 2

\* The flows run have at most FlowLengths steps.
FlowLengths == {1, 2, 3}

EngineSteps ==
    [message_type : {"text"}, input_type : {"none"}, validated : {FALSE},
     retry_on_invalid : {FALSE}, max_retries : {0}]
    \cup [message_type : {"text"}, input_type : {"text"}, validated : {FALSE},
          retry_on_invalid : {TRUE}, max_retries : {1}]
    \cup [message_type : {"text"}, input_type : {"text"}, validated : {TRUE},
          retry_on_invalid : {TRUE}, max_retries : 0..MaxRetries]
    \cup [message_type : {"transfer"}, input_type : {"none"}, validated : {FALSE},
          retry_on_invalid : {FALSE}, max_retries : {0}]

EngineFlows == UNION { [1..n -> EngineSteps] : n \in FlowLengths }

\* Session lifecycle states.
Terminal == {"completed", "transferred", "abandoned"}

NoSignal == "none"

Session(state, step, retries) == [state |-> state, step |-> step, retries |-> retries]

\* The session enters step i of the flow (steps with input_type none are rendered and
\* passed): awaiting_input at a step that takes input, transferred at a transfer step
\* (whose handler has called enqueue), completed past the last step.
RECURSIVE EnterStep(_, _)
EnterStep(f, i) ==
    IF i > Len(f) THEN Session("completed", i, 0)
    ELSE IF f[i].message_type = "transfer" THEN Session("transferred", i, 0)
    ELSE IF f[i].input_type = "none" THEN EnterStep(f, i + 1)
    ELSE Session("awaiting_input", i, 0)

\* Exhaustion declared one invalid input early.
RetryExhaustedEarly(step, retries) == retries >= step.max_retries

\* The retry counter after one more invalid input has used up max_retries.
RetryExhausted(step, retries) == retries > step.max_retries

\* advance(session, input) on an input that fails validation, retry_on_invalid set:
\* increment the retry counter; re-render the error up to max_retries times, then abandon.
InvalidInput(f, s) ==
    LET retries == s.retries + 1
    IN IF RetryExhausted(f[s.step], retries)
       THEN [session |-> Session("abandoned", s.step, retries), signal |-> "RetryExhausted"]
       ELSE [session |-> Session("awaiting_input", s.step, retries), signal |-> "ValidationFailed"]

\* advance(session, input) on an input that passes: store it, clear the retry counter, advance.
ValidInput(f, s) == [session |-> EnterStep(f, s.step + 1), signal |-> NoSignal]

EngineInit ==
    /\ flowDefinition \in EngineFlows
    /\ session = Session("running", 0, 0)
    /\ invalidRun = 0
    /\ lastEvent = [type |-> "none", signal |-> NoSignal]

\* Session start: render the initial message, then step 1.
startSession ==
    /\ session.state = "running"
    /\ session.step = 0
    /\ session' = EnterStep(flowDefinition, 1)
    /\ invalidRun' = 0
    /\ lastEvent' = [type |-> "start", signal |-> NoSignal]
    /\ UNCHANGED flowDefinition

\* Every session that has not ended is advanced by an input.
AdvancesUnlessEnded(state) == state \notin {"completed", "abandoned"}

\* The engine advances on input only a session that awaits input: a transferred
\* session is not advanced until its resume event.
AdvancesOnInput(state) == state = "awaiting_input"

\* An inbound input for the session; `valid` tells whether it matches validation_regex.
\* Only a session that awaits input is advanced.
inboundInput(valid) ==
    /\ session.step # 0
    /\ LET step == flowDefinition[session.step]
           result == IF ~AdvancesOnInput(session.state)
                     THEN [session |-> session, signal |-> NoSignal]
                     ELSE IF valid \/ ~step.validated THEN ValidInput(flowDefinition, session)
                     ELSE InvalidInput(flowDefinition, session)
       IN /\ session' = result.session
          /\ invalidRun' = IF ~AdvancesOnInput(session.state) THEN invalidRun
                           ELSE IF valid \/ ~step.validated THEN 0
                           ELSE invalidRun + 1
          /\ lastEvent' = [type |-> "input", signal |-> result.signal]
    /\ UNCHANGED flowDefinition

\* The session store collaborator times the session out.
timeoutSession ==
    /\ session.state \notin Terminal
    /\ session' = [session EXCEPT !.state = "abandoned"]
    /\ lastEvent' = [type |-> "timeout", signal |-> NoSignal]
    /\ UNCHANGED <<flowDefinition, invalidRun>>

\* The resume event of the Transfer Queue Manager: the suspended session is
\* reactivated and goes on with the step after the transfer step.
resumeSession ==
    /\ session.state = "transferred"
    /\ session' = EnterStep(flowDefinition, session.step + 1)
    /\ invalidRun' = 0
    /\ lastEvent' = [type |-> "resume", signal |-> NoSignal]
    /\ UNCHANGED flowDefinition


\* ==================================================== assignment strategy
\* The strategy is not part of the sources: round_robin follows the specification
\* (section 4.4).  Member ids are 1..n, in their stable order; last_assigned_at is 0
\* while absent, and a time from 1 on once set.

\* The team has at most MaxMembers members.
MaxMembers == 3

\* Time runs up to MaxClock.
MaxClock == 3

NoMember == 0

Rosters(n) == [1..n -> [available : BOOLEAN, last_assigned_at : {0}]]

\* The team's active, available members.
Available(r) == { m \in DOMAIN r : r[m].available }

\* The lowest member id among the available, whatever their timestamps.
lowestAvailable(r) ==
    IF Available(r) = {} THEN NoMember
    ELSE CHOOSE m \in Available(r) : \A o \in Available(r) : m <= o

\* round_robin: the available member with the oldest (or absent) last_assigned_at,
\* ties broken by member id; NoMember when no member is available.
roundRobin(r) ==
    IF Available(r) = {} THEN NoMember
    ELSE CHOOSE m \in Available(r) :
            \A o \in Available(r) :
                \/ r[m].last_assigned_at < r[o].last_assigned_at
                \/ r[m].last_assigned_at = r[o].last_assigned_at /\ m <= o

\* The strategy runs right after an enqueue at time `now`: the member selected gets
\* the transfer and its timestamp is updated; with no available member the transfer
\* stays unassigned and nothing changes.
Selected(r, now) ==
    LET m == roundRobin(r)
    IN [ pick |-> m,
         roster |-> IF m = NoMember THEN r ELSE [r EXCEPT ![m].last_assigned_at = now] ]

AssignInit ==
    /\ roster \in UNION { Rosters(n) : n \in 1..MaxMembers }
    /\ clock = 1
    /\ lastPick = NoMember

\* Outside SpecAssign the team has no member.
AssignIdle ==
    /\ roster = <<>>
    /\ clock = 1
    /\ lastPick = NoMember

\* enqueue to the team (strategy round_robin) at the current time
enqueueRoundRobin ==
    /\ roster' = Selected(roster, clock).roster
    /\ lastPick' = Selected(roster, clock).pick
    /\ UNCHANGED clock

\* A member becomes available or unavailable.
setAvailable(m, available) ==
    /\ m \in DOMAIN roster
    /\ roster[m].available # available
    /\ roster' = [roster EXCEPT ![m].available = available]
    /\ UNCHANGED <<clock, lastPick>>

\* Time passes.
tick ==
    /\ clock < MaxClock
    /\ clock' = clock + 1
    /\ UNCHANGED <<roster, lastPick>>


\* ========================================================== header tables
\* The tables of the flow builder that are JavaScript objects used as maps: the
\* api_config.headers and api_config.response_mapping of the selected step and
\* formData.completion_config.headers.  A table is a function from its keys to their
\* values; a key is kept as <<prefix, rest>>, like a step name.

\* The tables are exercised with at most MaxEntries entries.
MaxEntries == 3

\* What the user types into the value field of an entry.
EntryValues == {"", "v"}

\* object[key] = value
setEntry(table, key, value) ==
    [k \in DOMAIN table \cup {key} |-> IF k = key THEN value ELSE table[k]]

\* delete object[key]
deleteEntry(table, key) == [k \in DOMAIN table \ {key} |-> table[k]]

\* Object.keys(object).length
keysLength(table) == Cardinality(DOMAIN table)

\* function addHeader / addCompletionHeader: the table after the call
addHeaderResult(headers) ==
    LET headerNum == keysLength(headers) + 1
    IN setEntry(headers, <<"Header-", ToString(headerNum)>>, "")

\* function addResponseMapping: the table after the call
addResponseMappingResult(response_mapping) ==
    LET mappingNum == keysLength(response_mapping) + 1
    IN setEntry(response_mapping, <<"var_", ToString(mappingNum)>>, "")

TablesInit ==
    tables = [headers |-> <<>>, response_mapping |-> <<>>, completion_headers |-> <<>>]

\* One of the tables becomes `table`; the watcher of formData is not kept here.
TableBecomes(name, table) ==
    /\ tables' = [tables EXCEPT ![name] = table]
    /\ sent' = NoPayload
    /\ UNCHANGED <<steps, flowName, selectedStepIndex, stepToDeleteIndex, deleteStepDialogOpen>>

addHeader ==
    /\ selectedStep # 0
    /\ keysLength(tables.headers) < MaxEntries
    /\ TableBecomes("headers", addHeaderResult(tables.headers))

removeHeader(key) ==
    /\ selectedStep # 0
    /\ key \in DOMAIN tables.headers
    /\ TableBecomes("headers", deleteEntry(tables.headers, key))

\* v-model="selectedStep.api_config.headers[key]"
setHeaderValue(key, value) ==
    /\ selectedStep # 0
    /\ key \in DOMAIN tables.headers
    /\ TableBecomes("headers", setEntry(tables.headers, key, value))

addResponseMapping ==
    /\ selectedStep # 0
    /\ keysLength(tables.response_mapping) < MaxEntries
    /\ TableBecomes("response_mapping", addResponseMappingResult(tables.response_mapping))

removeResponseMapping(key) ==
    /\ selectedStep # 0
    /\ key \in DOMAIN tables.response_mapping
    /\ TableBecomes("response_mapping", deleteEntry(tables.response_mapping, key))

\* v-model="selectedStep.api_config.response_mapping[key]"
setResponseMappingValue(key, value) ==
    /\ selectedStep # 0
    /\ key \in DOMAIN tables.response_mapping
    /\ TableBecomes("response_mapping", setEntry(tables.response_mapping, key, value))

addCompletionHeader ==
    /\ keysLength(tables.completion_headers) < MaxEntries
    /\ TableBecomes("completion_headers", addHeaderResult(tables.completion_headers))

removeCompletionHeader(key) ==
    /\ key \in DOMAIN tables.completion_headers
    /\ TableBecomes("completion_headers", deleteEntry(tables.completion_headers, key))

\* v-model="formData.completion_config.headers[key]"
setCompletionHeaderValue(key, value) ==
    /\ key \in DOMAIN tables.completion_headers
    /\ TableBecomes("completion_headers", setEntry(tables.completion_headers, key, value))


\* ================================================================= saving
\* saveFlow as its two halves, before and after the await, with the watcher of formData.

\* isSaving: set before the request, cleared in `finally`
isSaving == saving # None

\* The request body saveFlow builds from the form, as far as the form is kept here.
saveFlowData == [name |-> flowName, steps |-> saveFlowSteps(steps)]

\* watch(formData, () => { hasUnsavedChanges.value = true }, { deep: true })
watchFormData ==
    hasUnsavedChanges' = IF <<steps', flowName'>> # <<steps, flowName>> THEN TRUE
                         ELSE hasUnsavedChanges

\* saveFlow up to its await: the Save button is disabled while isSaving
saveFlowRequest ==
    /\ ~isSaving
    /\ saveFlow
    /\ saving' = Some(saveFlowData)
    /\ UNCHANGED hasUnsavedChanges

\* saveFlow after its await, the request served: hasUnsavedChanges.value = false
saveFlowSucceeded ==
    /\ isSaving
    /\ hasUnsavedChanges' = FALSE
    /\ saving' = None
    /\ sent' = NoPayload
    /\ UNCHANGED <<steps, flowName, selectedStepIndex, stepToDeleteIndex, deleteStepDialogOpen>>

\* saveFlow after its await, the request failed: catch, finally
saveFlowFailed ==
    /\ isSaving
    /\ saving' = None
    /\ sent' = NoPayload
    /\ UNCHANGED <<steps, flowName, selectedStepIndex, stepToDeleteIndex, deleteStepDialogOpen,
                   hasUnsavedChanges>>


\* ============================================================= flows list
\* The flows list (src/frontend/src/views/chatbot/ChatbotFlowsView.vue, lines 1-266):
\* toggleFlow as its two halves, before and after the await.

\* At most MaxToggling updateFlow requests of toggleFlow are in flight.
MaxToggling == 2

\* The flows of the list.
FlowIds == {"f1", "f2"}

\* toggleFlow up to its await: updateFlow(flow.id, { enabled: !flow.enabled }) is sent
toggleFlowRequest(id) ==
    /\ Len(toggling) < MaxToggling
    /\ toggling' = Append(toggling, [id |-> id, enabled |-> ~flows[id]])
    /\ UNCHANGED <<flows, lastUpdate>>

\* toggleFlow after its await, request i served: flow.enabled = !flow.enabled
toggleFlowSucceeded(i) ==
    /\ flows' = [flows EXCEPT ![toggling[i].id] = ~@]
    /\ lastUpdate' = [lastUpdate EXCEPT ![toggling[i].id] = Some(toggling[i].enabled)]
    /\ toggling' = Splice(toggling, i)

\* toggleFlow after its await, request i failed: catch
toggleFlowFailed(i) ==
    /\ toggling' = Splice(toggling, i)
    /\ UNCHANGED <<flows, lastUpdate>>

\* ------------------------------------------------------- specification
\* Spec: the store under every sequence of calls of its functions.
StoreInit ==
    /\ transfers = <<>>
    /\ generalQueueCount = 0
    /\ teamQueueCounts = <<>>
    /\ isLoading = FALSE
    /\ lastCall = Call("init", 0, NoTransfer, NoUpdates)
    /\ server = [transfers |-> <<>>, created |-> 0]
    /\ channel = <<>>
    /\ inflight = <<>>

\* Outside SpecEngine no session runs: the flow has no step.
EngineIdle ==
    /\ flowDefinition = <<>>
    /\ session = Session("running", 0, 0)
    /\ invalidRun = 0
    /\ lastEvent = [type |-> "none", signal |-> NoSignal]

\* Outside their specifications the tables are empty, nothing is being saved, the
\* flows list is not loaded and no member request is under way.
PageIdle ==
    /\ TablesInit
    /\ hasUnsavedChanges = FALSE
    /\ saving = NoPayload
    /\ flows = <<>>
    /\ toggling = <<>>
    /\ lastUpdate = <<>>
    /\ adding = <<>>

Init == StoreInit /\ BuilderInit /\ HandlersInit /\ EngineIdle /\ AssignIdle /\ PageIdle

Next ==
    \/ \E transfer \in AgentTransfer : addTransfer(transfer) /\ UNCHANGED <<serverVars, otherVars>>
    \/ \E id \in TransferIds, updates \in PartialAgentTransfer :
            updateTransfer(id, updates) /\ UNCHANGED <<serverVars, otherVars>>
    \/ \E id \in TransferIds : removeTransfer(id) /\ UNCHANGED <<serverVars, otherVars>>
    \/ \E data \in Responses : fetchTransfers(data) /\ UNCHANGED <<serverVars, otherVars>>
    \/ fetchTransfers(EmptyBody) /\ UNCHANGED <<serverVars, otherVars>>
    \/ fetchTransfersFailed /\ UNCHANGED <<serverVars, otherVars>>

Spec == Init /\ [][Next]_vars



\* SpecSync: the store beside the server it mirrors.  The server applies the queue
\* operations of the specification (section 4.3) and sends one notification for each;
\* the store applies the notifications in the order sent and reconciles with list
\* requests, whose responses arrive whenever they arrive.
Notification(type, id, transfer, updates) ==
    [type |-> type, id |-> id, transfer |-> transfer, updates |-> updates]

\* The server's transfers become `list` and the notification `n` is sent.
ServerStep(list, created, n) ==
    /\ Len(channel) < MaxQueue
    /\ server' = [transfers |-> list, created |-> created]
    /\ channel' = Append(channel, n)
    /\ UNCHANGED <<storeVars, inflight>>

ServerIndex(id) == findIndex(server.transfers, id)

\* enqueue(contact, team?): rejected (DuplicateActiveTransfer) if the contact has an
\* active transfer; else a new active transfer with no agent, under a fresh id.
enqueue(team) ==
    LET id == server.created + 1
        transfer == [id |-> id, contact_id |-> ContactOf(id), status |-> "active",
                     agent_id |-> Empty, team_id |-> team]
    IN /\ id \in TransferIds
       /\ ~\E i \in Indices(server.transfers) :
              /\ server.transfers[i].contact_id = ContactOf(id)
              /\ server.transfers[i].status = "active"
       /\ ServerStep(Append(server.transfers, transfer), id,
                     Notification("addTransfer", id, transfer, NoUpdates))

\* assign(transferID, agentID): NotFound unless the transfer is active with no agent.
assign(id, agent) ==
    /\ ServerIndex(id) # 0
    /\ IsUnassignedActive(server.transfers[ServerIndex(id)])
    /\ ServerStep([server.transfers EXCEPT ![ServerIndex(id)].agent_id = agent], server.created,
                  Notification("updateTransfer", id, NoTransfer, Assign(agent)))

\* unassign(transferID): the inverse of assign.
unassign(id) ==
    /\ ServerIndex(id) # 0
    /\ server.transfers[ServerIndex(id)].status = "active"
    /\ Truthy(server.transfers[ServerIndex(id)].agent_id)
    /\ ServerStep([server.transfers EXCEPT ![ServerIndex(id)].agent_id = Empty], server.created,
                  Notification("updateTransfer", id, NoTransfer, Unassign))

\* resume(transferID, actorID): InvalidState unless the transfer is active.
resume(id) ==
    /\ ServerIndex(id) # 0
    /\ server.transfers[ServerIndex(id)].status = "active"
    /\ ServerStep([server.transfers EXCEPT ![ServerIndex(id)].status = "resumed"], server.created,
                  Notification("updateTransfer", id, NoTransfer, Resume))

\* remove(transferID): administrative deletion.
remove(id) ==
    /\ ServerIndex(id) # 0
    /\ ServerStep(Splice(server.transfers, ServerIndex(id)), server.created,
                  Notification("removeTransfer", id, NoTransfer, NoUpdates))

\* The store receives the oldest notification and calls the function it names.
receive ==
    /\ channel # <<>>
    /\ LET n == Head(channel)
       IN \/ n.type = "addTransfer" /\ addTransfer(n.transfer)
          \/ n.type = "updateTransfer" /\ updateTransfer(n.id, n.updates)
          \/ n.type = "removeTransfer" /\ removeTransfer(n.id)
    /\ channel' = Tail(channel)
    /\ UNCHANGED <<server, inflight>>

\* fetchTransfers up to its await: isLoading.value = true, and the request is sent.
\* The server answers with its transfers of that moment (no status parameter).
fetchTransfersRequest ==
    /\ Len(inflight) < MaxInflight
    /\ isLoading' = TRUE
    /\ inflight' = Append(inflight, listTransfers(server.transfers, Absent))
    /\ UNCHANGED <<transfers, generalQueueCount, teamQueueCounts, lastCall, server, channel>>

\* fetchTransfers after its await: the response `inflight[i]` has arrived.
fetchTransfersResponse(i) ==
    /\ fetchTransfers(inflight[i])
    /\ inflight' = Splice(inflight, i)
    /\ UNCHANGED <<server, channel>>

\* fetchTransfers after its await: the request `inflight[i]` has failed.
fetchTransfersError(i) ==
    /\ fetchTransfersFailed
    /\ inflight' = Splice(inflight, i)
    /\ UNCHANGED <<server, channel>>

NextSync ==
    \/ \E team \in TeamIds \cup {Empty} : enqueue(team) /\ UNCHANGED otherVars
    \/ \E id \in TransferIds, agent \in AgentIds : assign(id, agent) /\ UNCHANGED otherVars
    \/ \E id \in TransferIds : unassign(id) /\ UNCHANGED otherVars
    \/ \E id \in TransferIds : resume(id) /\ UNCHANGED otherVars
    \/ \E id \in TransferIds : remove(id) /\ UNCHANGED otherVars
    \/ receive /\ UNCHANGED otherVars
    \/ fetchTransfersRequest /\ UNCHANGED otherVars
    \/ \E i \in Indices(inflight) : fetchTransfersResponse(i) /\ UNCHANGED otherVars
    \/ \E i \in Indices(inflight) : fetchTransfersError(i) /\ UNCHANGED otherVars

SpecSync == Init /\ [][NextSync]_vars

\* SpecFlow: the flow builder under every sequence of its handlers.
FlowNames == {"", "support"}

NextFlow ==
    \/ onMountedNew /\ UNCHANGED <<storeVars, serverVars, handlerVars, engineVars, assignVars, pageVars>>
    \/ \E name \in FlowNames, flow \in FlowResponses :
            loadFlow(name, flow) /\ UNCHANGED <<storeVars, serverVars, handlerVars, engineVars, assignVars, pageVars>>
    \/ \E name \in FlowNames : setFlowName(name) /\ UNCHANGED <<storeVars, serverVars, handlerVars, engineVars, assignVars, pageVars>>
    \/ addStep /\ UNCHANGED <<storeVars, serverVars, handlerVars, engineVars, assignVars, pageVars>>
    \/ \E index \in 0..(MaxSteps - 1) : selectStep(index) /\ UNCHANGED <<storeVars, serverVars, handlerVars, engineVars, assignVars, pageVars>>
    \/ selectFlowSettings /\ UNCHANGED <<storeVars, serverVars, handlerVars, engineVars, assignVars, pageVars>>
    \/ \E index \in 0..(MaxSteps - 1) :
            confirmDeleteStep(index) /\ UNCHANGED <<storeVars, serverVars, handlerVars, engineVars, assignVars, pageVars>>
    \/ cancelDeleteStep /\ UNCHANGED <<storeVars, serverVars, handlerVars, engineVars, assignVars, pageVars>>
    \/ deleteStep /\ UNCHANGED <<storeVars, serverVars, handlerVars, engineVars, assignVars, pageVars>>
    \/ \E from, to \in 0..(MaxSteps - 1) : dragStep(from, to) /\ UNCHANGED <<storeVars, serverVars, handlerVars, engineVars, assignVars, pageVars>>
    \/ \E name \in NameInputs : setStepName(name) /\ UNCHANGED <<storeVars, serverVars, handlerVars, engineVars, assignVars, pageVars>>
    \/ \E n \in RetryInputs : setMaxRetries(n) /\ UNCHANGED <<storeVars, serverVars, handlerVars, engineVars, assignVars, pageVars>>
    \/ saveFlow /\ UNCHANGED <<storeVars, serverVars, handlerVars, engineVars, assignVars, pageVars>>

SpecFlow == Init /\ [][NextFlow]_vars

\* SpecButtons: the button helpers on one step, which getFlow delivered with any
\* number of buttons up to the cap.
ButtonTypes == {"reply", "url"}

LoadedButtons(n) == [i \in 1..n |-> [type |-> "reply"]]

InitButtons ==
    /\ StoreInit
    /\ HandlersInit
    /\ EngineIdle
    /\ AssignIdle
    /\ PageIdle
    /\ \E n \in 0..MaxButtons :
        steps = <<[defaultStep EXCEPT !.step_name = StepName(1), !.step_order = 1,
                                      !.buttons = LoadedButtons(n)]>>
    /\ flowName = "support"
    /\ selectedStepIndex = NullIndex
    /\ stepToDeleteIndex = NullIndex
    /\ deleteStepDialogOpen = FALSE
    /\ sent = NoPayload

NextButtons ==
    \/ \E index \in {0} : selectStep(index) /\ UNCHANGED <<storeVars, serverVars, handlerVars, engineVars, assignVars, pageVars>>
    \/ selectFlowSettings /\ UNCHANGED <<storeVars, serverVars, handlerVars, engineVars, assignVars, pageVars>>
    \/ \E type \in ButtonTypes : addButton(type) /\ UNCHANGED <<storeVars, serverVars, handlerVars, engineVars, assignVars, pageVars>>
    \/ \E index \in 0..(MaxButtons - 1) : removeButton(index) /\ UNCHANGED <<storeVars, serverVars, handlerVars, engineVars, assignVars, pageVars>>
    \/ saveFlow /\ UNCHANGED <<storeVars, serverVars, handlerVars, engineVars, assignVars, pageVars>>

SpecButtons == InitButtons /\ [][NextButtons]_vars

\* SpecDelete: selecting, dragging and deleting the steps of a loaded flow of three steps.
StepPlaces == {0, 1, 2}

InitDelete ==
    /\ StoreInit
    /\ HandlersInit
    /\ EngineIdle
    /\ AssignIdle
    /\ PageIdle
    /\ steps = loadFlowSteps(<<[step_name |-> None, step_order |-> None, max_retries |-> None,
                                 buttons |-> <<>>],
                               [step_name |-> None, step_order |-> None, max_retries |-> None,
                                 buttons |-> <<>>],
                               [step_name |-> None, step_order |-> None, max_retries |-> None,
                                 buttons |-> <<>>]>>)
    /\ flowName = "support"
    /\ selectedStepIndex = NullIndex
    /\ stepToDeleteIndex = NullIndex
    /\ deleteStepDialogOpen = FALSE
    /\ sent = NoPayload

NextDelete ==
    \/ \E index \in StepPlaces : selectStep(index) /\ UNCHANGED <<storeVars, serverVars, handlerVars, engineVars, assignVars, pageVars>>
    \/ selectFlowSettings /\ UNCHANGED <<storeVars, serverVars, handlerVars, engineVars, assignVars, pageVars>>
    \/ \E index \in StepPlaces :
            confirmDeleteStep(index) /\ UNCHANGED <<storeVars, serverVars, handlerVars, engineVars, assignVars, pageVars>>
    \/ cancelDeleteStep /\ UNCHANGED <<storeVars, serverVars, handlerVars, engineVars, assignVars, pageVars>>
    \/ deleteStep /\ UNCHANGED <<storeVars, serverVars, handlerVars, engineVars, assignVars, pageVars>>
    \/ \E from, to \in StepPlaces : dragStep(from, to) /\ UNCHANGED <<storeVars, serverVars, handlerVars, engineVars, assignVars, pageVars>>
    \/ \E name \in NameInputs \cup {CustomName} :
            setStepName(name) /\ UNCHANGED <<storeVars, serverVars, handlerVars, engineVars, assignVars, pageVars>>

SpecDelete == InitDelete /\ [][NextDelete]_vars

\* SpecTables: the three tables of a new flow under every sequence of additions,
\* removals and value edits.
HeaderKeys == { <<"Header-", ToString(n)>> : n \in 1..MaxEntries }
MappingKeys == { <<"var_", ToString(n)>> : n \in 1..MaxEntries }

InitTables ==
    /\ StoreInit
    /\ HandlersInit
    /\ EngineIdle
    /\ AssignIdle
    /\ PageIdle
    /\ steps = <<[defaultStep EXCEPT !.step_name = StepName(1), !.step_order = 1]>>
    /\ flowName = ""
    /\ selectedStepIndex = NullIndex
    /\ stepToDeleteIndex = NullIndex
    /\ deleteStepDialogOpen = FALSE
    /\ sent = NoPayload

TablesFrame == UNCHANGED <<storeVars, serverVars, handlerVars, engineVars, assignVars,
                           saveVars, listVars, requestVars>>

NextTables ==
    \/ \E index \in {0} : selectStep(index) /\ UNCHANGED tables /\ TablesFrame
    \/ selectFlowSettings /\ UNCHANGED tables /\ TablesFrame
    \/ addHeader /\ TablesFrame
    \/ \E key \in HeaderKeys : removeHeader(key) /\ TablesFrame
    \/ \E key \in HeaderKeys, value \in EntryValues : setHeaderValue(key, value) /\ TablesFrame
    \/ addResponseMapping /\ TablesFrame
    \/ \E key \in MappingKeys : removeResponseMapping(key) /\ TablesFrame
    \/ \E key \in MappingKeys, value \in EntryValues :
            setResponseMappingValue(key, value) /\ TablesFrame
    \/ addCompletionHeader /\ TablesFrame
    \/ \E key \in HeaderKeys : removeCompletionHeader(key) /\ TablesFrame
    \/ \E key \in HeaderKeys, value \in EntryValues :
            setCompletionHeaderValue(key, value) /\ TablesFrame

SpecTables == InitTables /\ [][NextTables]_vars

\* SpecSave: a new flow is edited and saved; the form stays editable while a save
\* request is in flight.
InitSave == InitTables

SaveFrame == UNCHANGED <<storeVars, serverVars, handlerVars, engineVars, assignVars,
                         tableVars, listVars, requestVars>>

NextSave ==
    \/ \E name \in FlowNames : setFlowName(name) /\ watchFormData /\ UNCHANGED saving /\ SaveFrame
    \/ addStep /\ watchFormData /\ UNCHANGED saving /\ SaveFrame
    \/ \E index \in 0..(MaxSteps - 1) :
            selectStep(index) /\ watchFormData /\ UNCHANGED saving /\ SaveFrame
    \/ \E n \in RetryInputs : setMaxRetries(n) /\ watchFormData /\ UNCHANGED saving /\ SaveFrame
    \/ saveFlowRequest /\ SaveFrame
    \/ saveFlowSucceeded /\ SaveFrame
    \/ saveFlowFailed /\ SaveFrame

SpecSave == InitSave /\ [][NextSave]_vars

\* SpecToggle: the flows list after fetchFlows, under every sequence of clicks on the
\* Enable / Disable buttons; responses arrive in any order.
InitToggle ==
    /\ StoreInit
    /\ BuilderInit
    /\ HandlersInit
    /\ EngineIdle
    /\ AssignIdle
    /\ TablesInit
    /\ hasUnsavedChanges = FALSE
    /\ saving = NoPayload
    /\ adding = <<>>
    /\ flows \in [FlowIds -> BOOLEAN]
    /\ toggling = <<>>
    /\ lastUpdate = [id \in FlowIds |-> None]

ToggleFrame == UNCHANGED <<storeVars, serverVars, builderVars, handlerVars, engineVars,
                           assignVars, tableVars, saveVars, requestVars>>

NextToggle ==
    \/ \E id \in FlowIds : toggleFlowRequest(id) /\ ToggleFrame
    \/ \E i \in Indices(toggling) : toggleFlowSucceeded(i) /\ ToggleFrame
    \/ \E i \in Indices(toggling) : toggleFlowFailed(i) /\ ToggleFrame

SpecToggle == InitToggle /\ [][NextToggle]_vars

\* SpecMembers: the member requests for one team of org1, handled concurrently.
InitMembers ==
    /\ StoreInit
    /\ BuilderInit
    /\ EngineIdle
    /\ AssignIdle
    /\ PageIdle
    /\ teamRows = CreateTeamResult([teams |-> {}, members |-> {}],
                                   CHOOSE u \in Users : u.user_id = "admin1",
                                   [Name |-> "sales", Description |-> "", AssignmentStrategy |-> "",
                                    IsActive |-> FALSE],
                                   "team1").teams
    /\ memberRows = {}
    /\ lastStatus = StatusOK

MembersFrame == UNCHANGED <<storeVars, serverVars, builderVars, engineVars, assignVars,
                            tableVars, saveVars, listVars>>

NextMembers ==
    \/ \E caller \in Users, teamID \in TeamKeys, req \in TeamMemberRequest :
            AddTeamMemberChecks(caller, teamID, req) /\ MembersFrame
    \/ \E i \in Indices(adding) : AddTeamMemberCreate(i) /\ MembersFrame
    \/ \E caller \in Users, teamID \in TeamKeys, memberUserID \in MemberIds :
            RemoveTeamMember(caller, teamID, memberUserID) /\ UNCHANGED adding /\ MembersFrame

SpecMembers == InitMembers /\ [][NextMembers]_vars

\* SpecTeams: the team handlers under every sequence of requests.
NextTeams ==
    \/ \E caller \in Users, req \in TeamRequest :
            CreateTeam(caller, req) /\ UNCHANGED <<storeVars, serverVars, builderVars, engineVars, assignVars, pageVars>>
    \/ \E caller \in Users, teamID \in TeamKeys, req \in TeamRequest :
            UpdateTeam(caller, teamID, req) /\ UNCHANGED <<storeVars, serverVars, builderVars, engineVars, assignVars, pageVars>>
    \/ \E caller \in Users, teamID \in TeamKeys :
            DeleteTeam(caller, teamID) /\ UNCHANGED <<storeVars, serverVars, builderVars, engineVars, assignVars, pageVars>>
    \/ \E caller \in Users, teamID \in TeamKeys, req \in TeamMemberRequest :
            AddTeamMember(caller, teamID, req) /\ UNCHANGED <<storeVars, serverVars, builderVars, engineVars, assignVars, pageVars>>
    \/ \E caller \in Users, teamID \in TeamKeys, memberUserID \in MemberIds :
            RemoveTeamMember(caller, teamID, memberUserID)
                /\ UNCHANGED <<storeVars, serverVars, builderVars, engineVars, assignVars, pageVars>>

SpecTeams == Init /\ [][NextTeams]_vars

\* SpecEngine: one session of any of the flows, under every sequence of events.
InitEngine == StoreInit /\ BuilderInit /\ HandlersInit /\ EngineInit /\ AssignIdle /\ PageIdle

NextEngine ==
    \/ startSession /\ UNCHANGED <<storeVars, serverVars, builderVars, handlerVars, assignVars, pageVars>>
    \/ \E valid \in BOOLEAN :
            inboundInput(valid) /\ UNCHANGED <<storeVars, serverVars, builderVars, handlerVars, assignVars, pageVars>>
    \/ timeoutSession /\ UNCHANGED <<storeVars, serverVars, builderVars, handlerVars, assignVars, pageVars>>
    \/ resumeSession /\ UNCHANGED <<storeVars, serverVars, builderVars, handlerVars, assignVars, pageVars>>

SpecEngine == InitEngine /\ [][NextEngine]_vars

\* SpecAssign: one team with strategy round_robin, under every sequence of enqueues,
\* availability changes and passing of time.
InitAssign == StoreInit /\ BuilderInit /\ HandlersInit /\ EngineIdle /\ AssignInit /\ PageIdle

NextAssign ==
    \/ enqueueRoundRobin /\ UNCHANGED <<storeVars, serverVars, builderVars, handlerVars, engineVars, pageVars>>
    \/ \E m \in 1..MaxMembers, available \in BOOLEAN :
            setAvailable(m, available)
                /\ UNCHANGED <<storeVars, serverVars, builderVars, handlerVars, engineVars, pageVars>>
    \/ tick /\ UNCHANGED <<storeVars, serverVars, builderVars, handlerVars, engineVars, pageVars>>

SpecAssign == InitAssign /\ [][NextAssign]_vars

\* =============================================================== claims
Queues == TeamIds \cup {Empty}

\* The counter of queue `q` (Empty: the general queue), a missing team key reading 0.
Counter(s, q) == IF Truthy(q) THEN TeamCount(s.teams, q) ELSE s.general

\* From s to s2 the counter of queue q moved by d and no other counter moved.
OnlyCounterMoved(s, s2, q, d) ==
    /\ Counter(s2, q) = Counter(s, q) + d
    /\ \A o \in Queues \ {IF Truthy(q) THEN q ELSE Empty} : Counter(s2, o) = Counter(s, o)

NoCounterMoved(s, s2) == \A q \in Queues : Counter(s2, q) = Counter(s, q)

\* C1: in every reachable state generalQueueCount plus the sum of teamQueueCounts
\* equals the number of stored transfers that are active and have no agent.
C1_QueueCountIsUnassignedCount == queueCount = unassignedCount

\* C2: no contact ever has two active transfers in the store (an addTransfer for a
\* contact with an active transfer is rejected and changes nothing).
C2_OneActiveTransferPerContact ==
    \A i, j \in Indices(transfers) :
        (i # j /\ transfers[i].contact_id = transfers[j].contact_id)
            => ~(transfers[i].status = "active" /\ transfers[j].status = "active")

C4_EnqueueCreatesUnassignedActive ==
    [][\A transfer \in AgentTransfer :
        (addTransfer(transfer) /\ Stored(Store, transfer.id) = NoTransfer)
            => /\ IsUnassignedActive(Stored(Store, transfer.id)')
               /\ OnlyCounterMoved(Store, Store', transfer.team_id, 1)]_vars

\* C4 (amended): from every reachable state, an addTransfer of an id not yet stored
\* puts the transfer, as given, at the front of the list; if it has no agent_id exactly
\* the counter of its queue goes up by one, and if it has an agent_id no counter moves.
C4_AddTransferCountsUnassigned ==
    \A transfer \in AgentTransfer :
        Stored(Store, transfer.id) = NoTransfer =>
            LET after == addTransferResult(Store, transfer)
            IN /\ after.transfers = <<transfer>> \o transfers
               /\ IF Truthy(transfer.agent_id)
                  THEN NoCounterMoved(Store, after)
                  ELSE OnlyCounterMoved(Store, after, transfer.team_id, 1)

\* C4 witness: the last call added a new transfer with no agent to a team's queue,
\* next to a transfer that was already stored.
C4_Witness ==
    /\ lastCall.op = "addTransfer"
    /\ lastCall.old = Absent
    /\ Len(transfers) = 2
    /\ transfers[1].id = lastCall.id
    /\ ~Truthy(transfers[1].agent_id)
    /\ Truthy(transfers[1].team_id)
    /\ TeamCount(teamQueueCounts, transfers[1].team_id) >= 1

\* Every transfer but the one under `id` is the same in s2 as in s, at the same place.
OthersUntouched(s, s2, id) ==
    /\ Len(s2.transfers) = Len(s.transfers)
    /\ \A i \in Indices(s.transfers) : s.transfers[i].id # id => s2.transfers[i] = s.transfers[i]

\* C5: an assign (an update with only a truthy agent_id) of an active transfer with no
\* agent sets the agent, keeps the status, takes exactly one from the counter of the
\* transfer's queue and leaves every other counter and every other transfer alone.
C5_AssignTakesOneFromItsQueue ==
    [][\A id \in TransferIds, agent \in AgentIds :
        (updateTransfer(id, Assign(agent)) /\ IsUnassignedActive(Stored(Store, id)))
            => /\ Stored(Store, id)' = [Stored(Store, id) EXCEPT !.agent_id = agent]
               /\ OnlyCounterMoved(Store, Store', Stored(Store, id).team_id, -1)
               /\ OthersUntouched(Store, Store', id)]_vars

\* C6: an assign that finds no active transfer without agent under its id (no such id,
\* a transfer that has an agent, a resumed transfer) changes neither the list nor a counter.
C6_AssignWithoutPendingTransferChangesNothing ==
    [][\A id \in TransferIds, agent \in AgentIds :
        (updateTransfer(id, Assign(agent)) /\ ~IsUnassignedActive(Stored(Store, id)))
            => /\ transfers' = transfers
               /\ NoCounterMoved(Store, Store')]_vars

\* C7: from every reachable state, an assign of an active transfer with no agent followed
\* by an unassign of the same transfer leaves every counter where it was before the
\* assign, and the transfer without agent.
C7_UnassignUndoesAssign ==
    \A id \in TransferIds, agent \in AgentIds :
        IsUnassignedActive(Stored(Store, id)) =>
            LET assigned == updateTransferResult(Store, id, Assign(agent))
                unassigned == updateTransferResult(assigned, id, Unassign)
            IN /\ NoCounterMoved(Store, unassigned)
               /\ IsUnassignedActive(Stored(unassigned, id))

\* C8: every update with status 'resumed' of an active transfer, whatever else it
\* carries, makes the transfer resumed and takes exactly one from the counter of its
\* queue if it had no agent, and moves no counter if it had one.
C8_ResumeTakesOneIfUnassigned ==
    [][\A id \in TransferIds, updates \in PartialAgentTransfer :
        (updateTransfer(id, updates) /\ updates.status = "resumed"
                                     /\ Stored(Store, id).status = "active")
            => /\ Stored(Store, id)'.status = "resumed"
               /\ IF Truthy(Stored(Store, id).agent_id)
                  THEN NoCounterMoved(Store, Store')
                  ELSE OnlyCounterMoved(Store, Store', Stored(Store, id).team_id, -1)]_vars

\* C9: removeTransfer takes the transfer off the list and takes exactly one from the
\* counter of its queue if and only if it was active with no agent; otherwise (a
\* transfer with an agent, a resumed one, an id not stored) no counter moves.
C9_RemoveTakesOneIfPending ==
    [][\A id \in TransferIds :
        removeTransfer(id)
            => /\ Stored(Store, id)' = NoTransfer
               /\ IF IsUnassignedActive(Stored(Store, id))
                  THEN OnlyCounterMoved(Store, Store', Stored(Store, id).team_id, -1)
                  ELSE NoCounterMoved(Store, Store')]_vars

\* Nothing is on its way to the store: no notification and no list response.
Quiescent == channel = <<>> /\ inflight = <<>>

\* The store holds the server's transfers and the server's queue counts.
InSync ==
    /\ { transfers[i] : i \in Indices(transfers) }
           = { server.transfers[i] : i \in Indices(server.transfers) }
    /\ \A q \in Queues : Counter(Store, q) = Unassigned(server.transfers, q)

\* C10: whatever the interleaving of list responses and notifications, once all of them
\* have been applied the store's transfers and queue counts are the server's.
C10_StoreReconcilesWithServer == Quiescent => InSync

\* C11: from every reachable state, applying the same notification a second time (the
\* same addTransfer, the same updateTransfer whatever its updates, the same
\* removeTransfer) leaves the transfer list and every counter as the first left them.
C11_SecondDeliveryChangesNothing ==
    /\ \A transfer \in AgentTransfer :
        LET once == addTransferResult(Store, transfer)
        IN addTransferResult(once, transfer) = once
    /\ \A id \in TransferIds, updates \in PartialAgentTransfer :
        LET once == updateTransferResult(Store, id, updates)
        IN updateTransferResult(once, id, updates) = once
    /\ \A id \in TransferIds :
        LET once == removeTransferResult(Store, id)
        IN removeTransferResult(once, id) = once

\* C11 witness: a transfer waits in a queue beside another one, so that an assign, a
\* resume and a remove each move a counter when applied once, and an addTransfer of
\* the id just removed would count again.
C11_Witness ==
    /\ Len(transfers) = 2
    /\ queueCount = 2
    /\ \E id \in TransferIds :
        /\ IsUnassignedActive(Stored(Store, id))
        /\ updateTransferResult(Store, id, Assign("a1")) # Store
        /\ updateTransferResult(Store, id, Resume) # Store
        /\ removeTransferResult(Store, id) # Store
    /\ lastCall.op = "addTransfer"

\* The i-th step of the list has step_order i.
DenseOrder(list) == \A i \in Indices(list) : list[i].step_order = i

UniqueNames(list) ==
    \A i, j \in Indices(list) : i # j => list[i].step_name # list[j].step_name

\* C13: no two steps of the flow in the builder, and no two steps of a payload saveFlow
\* sends, have the same step_name.
C13_StepNamesAreUnique == UniqueNames(steps) /\ UniqueNames(sent)

\* C14: no step ever has more than ten buttons, and addButton on the selected step
\* with ten buttons leaves its button list as it is.
C14_ButtonCap ==
    /\ \A i \in Indices(steps) : Len(steps[i].buttons) <= MaxButtons
    /\ \A type \in ButtonTypes :
        (selectedStep # 0 /\ Len(steps[selectedStep].buttons) = MaxButtons)
            => addButtonResult(steps[selectedStep].buttons, type) = steps[selectedStep].buttons

\* C14 witness: the selected step has reached ten buttons through addButton('url').
C14_Witness ==
    /\ selectedStep # 0
    /\ Len(steps[selectedStep].buttons) = MaxButtons
    /\ steps[selectedStep].buttons[MaxButtons].type = "url"

\* C15: every step of every payload saveFlow sends has max_retries between 1 and 10.
C15_MaxRetriesBounded ==
    \A i \in Indices(sent) : sent[i].max_retries >= 1 /\ sent[i].max_retries <= 10

Strategies == {"round_robin", "load_balanced", "manual"}

\* The reply left both tables as they are.
NothingPersisted(reply) == reply.teams = teamRows /\ reply.members = memberRows

\* C16: every stored team's assignment strategy is round_robin, load_balanced or manual;
\* a CreateTeam with an empty strategy stores round_robin; a CreateTeam or UpdateTeam
\* with any other strategy is rejected and changes no row.
C16_StrategyIsValid ==
    /\ \A t \in teamRows : t.assignment_strategy \in Strategies
    /\ \A caller \in Users, req \in TeamRequest, id \in FreshKeys :
        LET reply == CreateTeamResult(DB, caller, req, id) IN
        /\ req.AssignmentStrategy \notin Strategies \cup {""}
                => reply.status # StatusOK /\ NothingPersisted(reply)
        /\ (req.AssignmentStrategy = "" /\ reply.status = StatusOK)
                => \E t \in reply.teams : t.id = id /\ t.assignment_strategy = "round_robin"
    /\ \A caller \in Users, req \in TeamRequest, teamID \in TeamKeys :
        LET reply == UpdateTeamResult(DB, caller, teamID, req) IN
        req.AssignmentStrategy \notin Strategies \cup {""}
            => reply.status # StatusOK /\ NothingPersisted(reply)

\* C16 witness: a team created with an empty strategy and a team with strategy manual
\* are stored, and the last request was rejected as a bad request.
C16_Witness ==
    /\ \E t \in teamRows : t.assignment_strategy = "round_robin"
    /\ \E t \in teamRows : t.assignment_strategy = "manual"
    /\ lastStatus = StatusBadRequest

\* The user holds role manager in the team.
ManagerOf(teamID, userID) ==
    \E m \in memberRows : m.team_id = teamID /\ m.user_id = userID /\ m.role = "manager"

\* The team exists in the organization.
TeamIn(teamID, orgID) == \E t \in teamRows : t.id = teamID /\ t.organization_id = orgID

\* The reply is Forbidden (NotFound where the team does not exist in the caller's
\* organization) and no row changed.
Refused(reply, caller, teamID) ==
    /\ NothingPersisted(reply)
    /\ reply.status = IF TeamIn(teamID, caller.organization_id) THEN StatusForbidden
                      ELSE StatusNotFound

AtStep == session.step \in 1..Len(flowDefinition)

\* C18: at a validated step with retry_on_invalid and max_retries = k, the session is
\* abandoned once the step has received k + 1 invalid inputs in a row, and RetryExhausted
\* is signalled on the (k + 1)-th of them only, never on an earlier one.
C18_RetryBound ==
    (AtStep /\ flowDefinition[session.step].validated
            /\ flowDefinition[session.step].retry_on_invalid) =>
        LET k == flowDefinition[session.step].max_retries IN
        /\ invalidRun <= k + 1
        /\ invalidRun = k + 1 => session.state = "abandoned"
        /\ lastEvent.signal = "RetryExhausted" => invalidRun = k + 1

\* C18 witness: a step with max_retries 2 has just abandoned the session on its third
\* invalid input in a row.
C18_Witness ==
    /\ AtStep
    /\ flowDefinition[session.step].max_retries = 2
    /\ lastEvent.signal = "RetryExhausted"
    /\ invalidRun = 3
    /\ session.state = "abandoned"

\* C20: a session that is transferred stays transferred at its transfer step through
\* every event but the resume event.
C20_TransferredWaitsForResume ==
    [][(session.state = "transferred" /\ lastEvent'.type # "resume")
            => session' = session]_vars

\* C20 witness: an input has arrived for a session that is transferred at a transfer
\* step with a step after it, and the session is still at the transfer step.
C20_Witness ==
    /\ session.state = "transferred"
    /\ lastEvent.type = "input"
    /\ AtStep
    /\ flowDefinition[session.step].message_type = "transfer"
    /\ session.step < Len(flowDefinition)

\* The members picked by n enqueues in a row from roster r, the i-th at time now + i * pace.
RECURSIVE Picks(_, _, _, _)
Picks(r, n, now, pace) ==
    IF n = 0 THEN <<>>
    ELSE <<Selected(r, now).pick>> \o Picks(Selected(r, now).roster, n - 1, now + pace, pace)

\* C19: whenever none of the N >= 1 available members of the team has a prior
\* assignment, N enqueues in a row (time passing between them or not) assign each of
\* them exactly once.
C19_RoundRobinFairness ==
    LET N == Cardinality(Available(roster)) IN
    (N >= 1 /\ \A m \in Available(roster) : roster[m].last_assigned_at = 0) =>
        \A pace \in {0, 1} :
            LET picks == Picks(roster, N, clock, pace)
            IN /\ { picks[i] : i \in 1..N } = Available(roster)
               /\ \A i, j \in 1..N : i # j => picks[i] # picks[j]

\* C19 witness: two members with no prior assignment are available, next to a
\* member with a lower id who has been assigned before and is no longer available.
C19_Witness ==
    /\ Cardinality(Available(roster)) = 2
    /\ \A m \in Available(roster) : roster[m].last_assigned_at = 0
    /\ \E o \in DOMAIN roster :
        /\ ~roster[o].available
        /\ roster[o].last_assigned_at > 0
        /\ \A m \in Available(roster) : o < m

\* The membership rows with role manager.
ManagersIn(members) == { m \in members : m.role = "manager" }

\* C21: an AddTeamMember or RemoveTeamMember request of a caller who is not an admin,
\* whatever it asks for and whatever the tables hold, leaves the rows with role manager
\* of every team as they are.
C21_NonAdminsLeaveManagers ==
    \A caller \in Users : caller.role # "admin" =>
        \A teamID \in TeamKeys :
            /\ \A req \in TeamMemberRequest :
                  ManagersIn(AddTeamMemberResult(DB, caller, teamID, req).members)
                      = ManagersIn(memberRows)
            /\ \A memberUserID \in MemberIds :
                  ManagersIn(RemoveTeamMemberResult(DB, caller, teamID, memberUserID).members)
                      = ManagersIn(memberRows)

\* C21 witness: a caller who is not an admin manages two teams; in one the request to
\* remove another manager is refused, in the other the request to add a manager is
\* refused while the request to add the same user as an agent is served.
C21_Witness ==
    \E caller \in Users, t1, t2 \in TeamKeys, other \in MemberIds :
        /\ caller.role # "admin"
        /\ other # caller.user_id
        /\ isManager(DB, t1, caller.user_id)
        /\ isManager(DB, t1, other)
        /\ RemoveTeamMemberResult(DB, caller, t1, other).status = StatusForbidden
        /\ AddTeamMemberResult(DB, caller, t2, [UserID |-> other, Role |-> "manager"]).status
               = StatusForbidden
        /\ AddTeamMemberResult(DB, caller, t2, [UserID |-> other, Role |-> ""]).status
               = StatusOK

\* C24: a DeleteTeam request answered 404 ('Team not found'), whoever sends it and
\* whatever team id it names, leaves the teams and the team members as they are.
C24_NotFoundDeletesNothing ==
    \A caller \in Users, teamID \in TeamKeys :
        LET reply == DeleteTeamResult(DB, caller, teamID)
        IN reply.status = StatusNotFound =>
              reply.teams = teamRows /\ reply.members = memberRows

\* The body of an UpdateTeam request that has neither description nor is_active:
\* decoded, both have Go's zero value.
OmitsDescriptionAndIsActive(req) == req.Description = "" /\ req.IsActive = FALSE

\* C25: an UpdateTeam request whose body omits description and is_active, when it is
\* served, leaves the description and is_active of the stored team as they are.
C25_UpdateKeepsOmittedFields ==
    \A caller \in Users, teamID \in TeamKeys, req \in TeamRequest :
        LET reply == UpdateTeamResult(DB, caller, teamID, req)
        IN (OmitsDescriptionAndIsActive(req) /\ reply.status = StatusOK) =>
              \A before \in teamRows : before.id = teamID =>
                  \E after \in reply.teams :
                      /\ after.id = teamID
                      /\ after.description = before.description
                      /\ after.is_active = before.is_active

\* The number of stored transfers that are active, have no agent and wait in queue q
\* (Empty: no team).
Waiting(s, q) ==
    Cardinality({ i \in Indices(s.transfers) :
                    /\ IsUnassignedActive(s.transfers[i])
                    /\ Truthy(s.transfers[i].team_id) = Truthy(q)
                    /\ Truthy(q) => s.transfers[i].team_id = q })

\* C23: in every reachable state of the store each counter is accurate by itself:
\* teamQueueCounts[t] is the number of active transfers without agent whose team_id
\* is t, and generalQueueCount the number of those without team.
C23_EachCounterIsAccurate == \A q \in Queues : Counter(Store, q) = Waiting(Store, q)

\* C27: deleteStep of a step other than the selected one leaves the selection on the
\* step that was selected: its place is one lower if the deleted step stood before it,
\* and the same otherwise.
C27_DeleteKeepsSelection ==
    [][(/\ deleteStep
        /\ selectedStep # 0
        /\ selectedStepIndex # stepToDeleteIndex)
          => selectedStepIndex' = IF stepToDeleteIndex < selectedStepIndex
                                  THEN selectedStepIndex - 1
                                  ELSE selectedStepIndex]_vars

\* `after` has exactly one key more than `before` and every entry of `before` as it was.
AddsOneEntry(before, after) ==
    /\ keysLength(after) = keysLength(before) + 1
    /\ \A k \in DOMAIN before : k \in DOMAIN after /\ after[k] = before[k]

\* C28: from every state of the tables that additions, removals and value edits
\* reach, addHeader, addResponseMapping and addCompletionHeader each add exactly one
\* new key and leave the key and the value of every existing entry as they were.
C28_AddKeepsExistingEntries ==
    /\ AddsOneEntry(tables.headers, addHeaderResult(tables.headers))
    /\ AddsOneEntry(tables.response_mapping, addResponseMappingResult(tables.response_mapping))
    /\ AddsOneEntry(tables.completion_headers, addHeaderResult(tables.completion_headers))

\* C26: when a save request succeeds while the form no longer is what the request
\* sent, hasUnsavedChanges is true afterwards (so handleCancel, which tests only
\* hasUnsavedChanges, still opens the confirmation dialog).
C26_EditsWhileSavingStayUnsaved ==
    [][(saveFlowSucceeded /\ saving # Some(saveFlowData)) => hasUnsavedChanges' = TRUE]_vars

\* C29: once no toggleFlow of a flow is in flight, the enabled flag of the flow in the
\* list is the enabled value that its last successful update sent.
C29_FlagIsLastSuccessfulUpdate ==
    \A id \in FlowIds :
        (lastUpdate[id] # None /\ \A i \in Indices(toggling) : toggling[i].id # id)
            => flows[id] = lastUpdate[id][1]

\* C22: the table never holds two membership rows of the same team and user, also
\* when AddTeamMember requests for the same pair are handled concurrently.
C22_OneRowPerTeamAndUser ==
    \A m1, m2 \in memberRows :
        (m1.team_id = m2.team_id /\ m1.user_id = m2.user_id) => m1 = m2

====
